---- MODULE Spec2Model ----
(***************************************************************************)
(* Model of the scan-data decoder of DCP-130C/scandec_stubs.c: the session *)
(* globals (g_open, g_bpp, the three colour planes and the Red/Green       *)
(* flags), the entry points ScanDecOpen, ScanDecPageStart, ScanDecWrite,   *)
(* ScanDecPageEnd and ScanDecClose, and the helpers decode_packbits and    *)
(* gray8_to_1bit.  The debug statistics (g_debug, g_stats) never influence *)
(* a decoded byte or a return value and are left out.                      *)
(*                                                                         *)
(* DWORD is unsigned long (32 or 64 bits).  The model keeps its wrap-      *)
(* around but scales the width down to DwordBits bits, so that the values  *)
(* at which the layout arithmetic of ScanDecOpen wraps can be enumerated.  *)
(* Buffers are byte sequences; index i of the C code is element i+1.       *)
(***************************************************************************)
EXTENDS Integers, Sequences, FiniteSets, TLC

VARIABLES
    g_open,         \* static SCANDEC_OPEN g_open
    g_bpp,          \* static int g_bpp
    g_red_plane,    \* static BYTE *g_red_plane   ([alloc, mem]; alloc = FALSE is NULL)
    g_green_plane,  \* static BYTE *g_green_plane
    g_blue_plane,   \* static BYTE *g_blue_plane
    g_plane_pixels, \* static DWORD g_plane_pixels
    g_have_red,     \* static int g_have_red
    g_have_green,   \* static int g_have_green
    op,             \* the entry point called last
    p,              \* the caller's SCANDEC_OPEN after the last ScanDecOpen
    w,              \* the caller's SCANDEC_WRITE (and *pWriteBuff) after the last ScanDecWrite
    ret,            \* the value the last call returned
    st,             \* *st after the last ScanDecWrite / ScanDecPageEnd
    pre,            \* the session globals as they were before the last call
    acc,            \* the memory the last call touched (extents, counted in bytes)
    hist,           \* history of the call sequence (what the caller has observed)
    pb,             \* harness of decode_packbits called on its own
    ord             \* harness of scripted rows (one row in both plane orders, two rows)

vars == <<g_open, g_bpp, g_red_plane, g_green_plane, g_blue_plane, g_plane_pixels,
          g_have_red, g_have_green, op, p, w, ret, st, pre, acc, hist, pb, ord>>

session == <<g_open, g_bpp, g_red_plane, g_green_plane, g_blue_plane, g_plane_pixels,
             g_have_red, g_have_green>>

----------------------------------------------------------------------------
\* Bounds of the model.

\* width of DWORD in the model (the code: 32 or 64)
DwordBits == 8
\* largest ordinary pixel count per line handed to ScanDecOpen
MaxN == 2
\* number of plane records (Red, Green or Blue) buffered in one run
MaxPlaneRecords == 3
\* longest input handed to decode_packbits on its own
PBMaxLen == 4
\* largest capacity handed to decode_packbits on its own
PBMaxCap == 4

DwordMod == 2 ^ DwordBits

----------------------------------------------------------------------------
\* Program constants.

C_TRUE == 1
C_FALSE == 0
SCIDC_WHITE == 1
SCIDC_NONCOMP == 2
SCIDC_PACK == 3
SC_2BIT == 256
SC_8BIT == 512
SC_24BIT == 1024
KIND_RED == 2
KIND_GREEN == 3
KIND_BLUE == 4
WHITE_BYTE == 255
GRAY_THRESHOLD == 128
PB_NOOP == -128
ST_FAULT == -1
ST_NOLINE == 0
ST_LINE == 1

----------------------------------------------------------------------------
\* Inputs the callers are drawn from.

\* a compression code that is none of the three known ones
SCIDC_OTHER == SCIDC_PACK + 6
CompVals == {SCIDC_WHITE, SCIDC_NONCOMP, SCIDC_PACK, SCIDC_OTHER}
\* nInDataKind: 1 is no plane tag, 2..4 are Red, Green, Blue
KindVals == {KIND_RED - 1, KIND_RED, KIND_GREEN, KIND_BLUE}
\* nColorType: no recognised bit, or one of the three depth bits
ColorVals == {0, SC_2BIT, SC_8BIT, SC_24BIT}
\* dwInLinePixCnt: ordinary counts and the largest DWORD
PixCnts == (0 .. MaxN) \cup {DwordMod - 1}
\* line payloads: one sample below and one above the threshold; as PackBits
\* control bytes 1 is "copy 2" and 200 is "repeat 57 times"
LineVals == { <<>>, <<1, 200>>, <<200, 1>> }
\* the caller sizes its destination from dwOutLineByte: one short, exact, one over
CapDeltas == {-1, 0, 1}
\* what every byte of the caller's destination holds before the call
DestFills == {85}
\* bytes that memory outside a buffer, or a fresh malloc block, may hold
JunkVals == {0, 255}
JunkLen == MaxN
JunkImages == [1 .. JunkLen -> JunkVals]

Max(a, b) == IF a >= b THEN a ELSE b
Min(a, b) == IF a <= b THEN a ELSE b
Fill(n, v) == [i \in 1 .. n |-> v]

----------------------------------------------------------------------------
\* Memory.  A buffer being written is a record [mem, hi]: mem is its content
\* and hi the extent of the writes so far (highest index written + 1).  A
\* write outside the buffer leaves mem alone and still counts in hi.  A read
\* outside a buffer yields whatever the adjacent memory holds (junk).

NULLPTR == [alloc |-> FALSE, mem |-> << >>]
Block(seq) == [alloc |-> TRUE, mem |-> seq]
Track(seq) == [mem |-> seq, hi |-> 0]

\* in[i]
Load(in, i, junk) ==
    IF i < Len(in) THEN in[i + 1] ELSE junk[(i % Len(junk)) + 1]

\* the extent of reading n bytes from offset off, joined to the extent rd
ReadExtent(rd, off, n) == IF n > 0 THEN Max(rd, off + n) ELSE rd

\* memset(out + off, v, n)
MemSet(out, off, v, n) ==
    [mem |-> [k \in 1 .. Len(out.mem) |->
                 IF k > off /\ k <= off + n THEN v ELSE out.mem[k]],
     hi  |-> IF n > 0 THEN Max(out.hi, off + n) ELSE out.hi]

\* memcpy(out + off, in + soff, n)
MemCpy(out, off, in, soff, n, junk) ==
    [mem |-> [k \in 1 .. Len(out.mem) |->
                 IF k > off /\ k <= off + n
                 THEN Load(in, soff + (k - off - 1), junk)
                 ELSE out.mem[k]],
     hi  |-> IF n > 0 THEN Max(out.hi, off + n) ELSE out.hi]

\* out[i] = v
Store(out, i, v) == MemSet(out, i, v, 1)

\* x & m and x | m for a single-bit mask m
BitTest(x, m) == (x \div m) % 2 = 1
BitOr(x, m) == IF BitTest(x, m) THEN x ELSE x + m

----------------------------------------------------------------------------
\* decode_packbits

\* (signed char)in[iP]
SignedChar(b) == IF b >= 128 THEN b - 256 ELSE b

\* n >= 0: copy the next n+1 bytes
LiteralCount(n) == n + 1

\* the repeat count taken as -n
RepeatCount_NoBias(n) == 0 - n
\* n < 0: repeat the next byte 1-n times
RepeatCount(n) == 1 - n

\* if (a + c > limit) c = limit - a
ClampCount(a, c, limit) == IF a + c > limit THEN limit - a ELSE c

RECURSIVE pb_loop(_, _, _, _, _, _, _, _)
pb_loop(in, inLen, out, outMax, iP, oP, rd, junk) ==
    IF ~(iP < inLen /\ oP < outMax)
    THEN [out |-> out, oP |-> oP, rd |-> rd]
    ELSE
      LET n   == SignedChar(Load(in, iP, junk))
          iP1 == iP + 1
          rd1 == ReadExtent(rd, iP, 1)
      IN  IF n >= 0
          THEN LET c == ClampCount(oP, ClampCount(iP1, LiteralCount(n), inLen), outMax)
               IN  pb_loop(in, inLen, MemCpy(out, oP, in, iP1, c, junk), outMax,
                           iP1 + c, oP + c, ReadExtent(rd1, iP1, c), junk)
          ELSE IF n # PB_NOOP
          THEN IF iP1 >= inLen
               THEN [out |-> out, oP |-> oP, rd |-> rd1]
               ELSE LET v == Load(in, iP1, junk)
                        c == ClampCount(oP, RepeatCount(n), outMax)
                    IN  pb_loop(in, inLen, MemSet(out, oP, v, c), outMax,
                                iP1 + 1, oP + c, ReadExtent(rd1, iP1, 1), junk)
          ELSE pb_loop(in, inLen, out, outMax, iP1, oP, rd1, junk)

\* returns the buffer written, the count oP returned, and the extent of the
\* reads of in
decode_packbits(in, inLen, out, outMax, junk) ==
    pb_loop(in, inLen, out, outMax, 0, 0, 0, junk)

----------------------------------------------------------------------------
\* gray8_to_1bit

\* the mask taken LSB first
BitMask_LsbFirst(k) == 2 ^ k
\* 0x80 >> k
BitMask(k) == 2 ^ (7 - k)

\* gray[i] >= 128
IsWhite(sample) == sample >= GRAY_THRESHOLD

\* packed[idx] |= mask
OrByte(packed, idx, mask) ==
    IF idx < Len(packed.mem)
    THEN Store(packed, idx, BitOr(packed.mem[idx + 1], mask))
    ELSE [packed EXCEPT !.hi = Max(packed.hi, idx + 1)]

RECURSIVE g2b_loop(_, _, _, _, _)
g2b_loop(gray, nPixels, packed, i, junk) ==
    IF ~(i < nPixels)
    THEN packed
    ELSE g2b_loop(gray, nPixels,
                  IF IsWhite(Load(gray, i, junk))
                  THEN OrByte(packed, i \div 8, BitMask(i % 8))
                  ELSE packed,
                  i + 1, junk)

\* returns the packed buffer and the extent of the reads of gray
gray8_to_1bit(gray, nPixels, packed, packedSize, junk) ==
    [out |-> g2b_loop(gray, nPixels, MemSet(packed, 0, 0, packedSize), 0, junk),
     rd  |-> ReadExtent(0, 0, nPixels)]

----------------------------------------------------------------------------
\* ScanDecOpen: the output line layout

\* a SCANDEC_OPEN (the resolution fields and nOutDataKind are never read)
OpenStruct(ct, n, lb, outPix, outByte, outMax) ==
    [nColorType |-> ct, dwInLinePixCnt |-> n, bLongBoundary |-> lb,
     dwOutLinePixCnt |-> outPix, dwOutLineByte |-> outByte,
     dwOutWriteMaxSize |-> outMax]

\* memset(&g_open, 0, sizeof(g_open))
ZeroOpen == OpenStruct(0, 0, 0, 0, 0, 0)

\* g_bpp chosen from nColorType
BytesPerPixel(ct) ==
    IF BitTest(ct, SC_24BIT) THEN 3
    ELSE IF BitTest(ct, SC_8BIT) THEN 1
    ELSE 0

\* dwOutLineByte before alignment, in DWORD arithmetic
LineBytes(ct, n) ==
    IF BitTest(ct, SC_24BIT) THEN (n * 3) % DwordMod
    ELSE IF BitTest(ct, SC_8BIT) THEN n
    ELSE ((n + 7) % DwordMod) \div 8

\* (x + 3) & ~3UL
AlignLong(x) == ((x + 3) % DwordMod) - (((x + 3) % DwordMod) % 4)

\* dwOutLineByte
OutLineByte(ct, n, lb) ==
    IF lb # 0 THEN AlignLong(LineBytes(ct, n)) ELSE LineBytes(ct, n)

\* dwOutWriteMaxSize
OutWriteMaxSize(lineByte) == (lineByte * 16) % DwordMod

\* the three calloc(g_plane_pixels, 1): each may return NULL, and the blocks
\* that are returned lie in one address space of DwordMod bytes
CallocOutcomes(n) ==
    { o \in [1 .. 3 -> BOOLEAN] : n * Cardinality({k \in 1 .. 3 : o[k]}) < DwordMod }

\* calloc(n, 1)
Calloc(ok, n) == IF ok THEN Block(Fill(n, 0)) ELSE NULLPTR

----------------------------------------------------------------------------
\* What is recorded beside the program state.

Snapshot ==
    [open |-> g_open, bpp |-> g_bpp, red |-> g_red_plane, green |-> g_green_plane,
     blue |-> g_blue_plane, plane_pixels |-> g_plane_pixels,
     have_red |-> g_have_red, have_green |-> g_have_green, hist |-> hist]

\* the same with the plane contents left out (kept across ScanDecOpen and
\* ScanDecClose, which release the planes whatever they hold)
Released(plane) == [alloc |-> plane.alloc, mem |-> << >>]
SnapshotOfFlags ==
    [open |-> g_open, bpp |-> g_bpp, red |-> Released(g_red_plane),
     green |-> Released(g_green_plane), blue |-> Released(g_blue_plane),
     plane_pixels |-> g_plane_pixels,
     have_red |-> g_have_red, have_green |-> g_have_green, hist |-> hist]

NoAccess == [rd |-> 0, wrDest |-> 0, wrPlane |-> 0, pixels |-> 0]

\* calloc[k]: whether the k-th calloc of the call returned a block (TRUE when
\* the call made none)
NoOpen == [present |-> FALSE, val |-> ZeroOpen, calloc |-> <<TRUE, TRUE, TRUE>>]

NoWrite ==
    [wPresent |-> FALSE, linePresent |-> FALSE, buffPresent |-> FALSE,
     nInDataComp |-> 0, nInDataKind |-> 0, pLineData |-> << >>,
     dwLineDataSize |-> 0, fill |-> 0, pWriteBuff |-> << >>, dwWriteBuffSize |-> 0]

\* opened: the last ScanDecOpen that was handed a structure returned TRUE and
\*         ScanDecClose has not been called since
\* nplanes: records that reached a plane buffer so far
\* rowR, rowG: a Red / Green record reached its plane buffer since the later
\*         of that Open and the last plane record that was reported as a line
\* failed: the last ScanDecOpen that was handed a structure returned FALSE and
\*         ScanDecClose has not been called since
\* rowPage: ScanDecPageEnd was called since rowR or rowG became true
NoHist == [opened |-> FALSE, nplanes |-> 0, rowR |-> FALSE, rowG |-> FALSE,
           failed |-> FALSE, rowPage |-> FALSE]

NoSnapshot ==
    [open |-> ZeroOpen, bpp |-> 0, red |-> NULLPTR, green |-> NULLPTR,
     blue |-> NULLPTR, plane_pixels |-> 0, have_red |-> 0, have_green |-> 0,
     hist |-> NoHist]

\* The caller is single-threaded: it makes a call only after it has taken
\* the result of the one before (op = "none"), and it stops after
\* MaxPlaneRecords plane records.
CanCall == op = "none" /\ hist.nplanes < MaxPlaneRecords

PBIdle == [in |-> << >>, outMax |-> 0, out0 |-> << >>, out |-> << >>,
           oP |-> 0, rd |-> 0, hi |-> 0, done |-> FALSE]

\* the row harness at rest
OrdIdle == [pc |-> 0]

Init ==
    /\ g_open = ZeroOpen
    /\ g_bpp = 0
    /\ g_red_plane = NULLPTR
    /\ g_green_plane = NULLPTR
    /\ g_blue_plane = NULLPTR
    /\ g_plane_pixels = 0
    /\ g_have_red = 0
    /\ g_have_green = 0
    /\ op = "none"
    /\ p = NoOpen
    /\ w = NoWrite
    /\ ret = 0
    /\ st = 0
    /\ pre = NoSnapshot
    /\ acc = NoAccess
    /\ hist = NoHist
    /\ pb = PBIdle
    /\ ord = OrdIdle

----------------------------------------------------------------------------
\* BOOL ScanDecOpen(SCANDEC_OPEN *p)

ScanDecOpenNull ==
    /\ CanCall
    /\ op' = "Open"
    /\ p' = NoOpen
    /\ ret' = C_FALSE
    /\ pre' = Snapshot
    /\ w' = NoWrite /\ st' = 0 /\ acc' = NoAccess
    /\ UNCHANGED <<session, hist, pb, ord>>

\* the blue test of the allocation check left out
OpenFailed_IgnoresBlue(bpp, red, green, blue) ==
    bpp = 3 /\ (~red.alloc \/ ~green.alloc)
\* g_bpp == 3 and !g_red_plane || !g_green_plane || !g_blue_plane
OpenFailed(bpp, red, green, blue) ==
    bpp = 3 /\ (~red.alloc \/ ~green.alloc \/ ~blue.alloc)

\* the flag left as it was
FlagAfterOpen_Kept(flag) == flag
\* g_have_red = 0; g_have_green = 0
FlagAfterOpen(flag) == 0

ScanDecOpenWith(ct, n, lb, o) ==
    LET filled == OpenStruct(ct, n, lb, n, OutLineByte(ct, n, lb),
                             OutWriteMaxSize(OutLineByte(ct, n, lb)))
        bpp    == BytesPerPixel(ct)
        red    == Calloc(o[1], n)
        green  == Calloc(o[2], n)
        blue   == Calloc(o[3], n)
        failed == OpenFailed(bpp, red, green, blue)
        keep   == bpp = 3 /\ ~failed
    IN  /\ CanCall
        /\ op' = "Open"
        /\ p' = [present |-> TRUE, val |-> filled, calloc |-> o]
        /\ g_open' = filled
        /\ g_bpp' = bpp
        /\ g_have_red' = FlagAfterOpen(g_have_red)
        /\ g_have_green' = FlagAfterOpen(g_have_green)
        /\ g_plane_pixels' = IF bpp = 3 THEN n ELSE g_plane_pixels
        /\ g_red_plane' = IF keep THEN red ELSE NULLPTR
        /\ g_green_plane' = IF keep THEN green ELSE NULLPTR
        /\ g_blue_plane' = IF keep THEN blue ELSE NULLPTR
        /\ ret' = IF failed THEN C_FALSE ELSE C_TRUE
        /\ pre' = SnapshotOfFlags
        /\ hist' = [opened |-> ~failed, nplanes |-> hist.nplanes,
                    rowR |-> FALSE, rowG |-> FALSE,
                    failed |-> failed, rowPage |-> FALSE]
        /\ w' = NoWrite /\ st' = 0 /\ acc' = NoAccess
        /\ UNCHANGED <<pb, ord>>

ScanDecOpen ==
    \/ ScanDecOpenNull
    \/ \E ct \in ColorVals, n \in PixCnts, lb \in {0, 1} :
         \E o \in (IF BytesPerPixel(ct) = 3 THEN CallocOutcomes(n)
                   ELSE {[k \in 1 .. 3 |-> TRUE]}) :
            ScanDecOpenWith(ct, n, lb, o)

\* BOOL ScanDecPageStart(void)
ScanDecPageStart ==
    /\ CanCall
    /\ op' = "PageStart"
    /\ ret' = C_TRUE
    /\ pre' = Snapshot
    /\ p' = NoOpen /\ w' = NoWrite /\ st' = 0 /\ acc' = NoAccess
    /\ UNCHANGED <<session, hist, pb, ord>>

\* the page end drops the row that is being buffered
FlagAfterPageEnd_Cleared(flag) == 0
\* ScanDecPageEnd assigns neither flag
FlagAfterPageEnd(flag) == flag

\* DWORD ScanDecPageEnd(SCANDEC_WRITE *w, INT *st)
ScanDecPageEnd ==
    /\ CanCall
    /\ op' = "PageEnd"
    /\ ret' = 0
    /\ st' = 0
    /\ g_have_red' = FlagAfterPageEnd(g_have_red)
    /\ g_have_green' = FlagAfterPageEnd(g_have_green)
    /\ pre' = Snapshot
    /\ hist' = [hist EXCEPT !.rowPage = @ \/ hist.rowR \/ hist.rowG]
    /\ p' = NoOpen /\ w' = NoWrite /\ acc' = NoAccess
    /\ UNCHANGED <<g_open, g_bpp, g_red_plane, g_green_plane, g_blue_plane,
                   g_plane_pixels, pb, ord>>

\* the flag left as it was
FlagAfterClose_Kept(flag) == flag
\* g_have_red = 0; g_have_green = 0
FlagAfterClose(flag) == 0

\* BOOL ScanDecClose(void)
ScanDecClose ==
    /\ CanCall
    /\ op' = "Close"
    /\ g_open' = ZeroOpen
    /\ g_bpp' = 0
    /\ g_red_plane' = NULLPTR
    /\ g_green_plane' = NULLPTR
    /\ g_blue_plane' = NULLPTR
    /\ g_plane_pixels' = 0
    /\ g_have_red' = FlagAfterClose(g_have_red)
    /\ g_have_green' = FlagAfterClose(g_have_green)
    /\ ret' = C_TRUE
    /\ pre' = SnapshotOfFlags
    /\ hist' = [opened |-> FALSE, nplanes |-> hist.nplanes,
                rowR |-> FALSE, rowG |-> FALSE,
                failed |-> FALSE, rowPage |-> FALSE]
    /\ p' = NoOpen /\ w' = NoWrite /\ st' = 0 /\ acc' = NoAccess
    /\ UNCHANGED <<pb, ord>>

----------------------------------------------------------------------------
\* DWORD ScanDecWrite(SCANDEC_WRITE *w, INT *st)

\* the range test with its lower limit one tag early
PlaneTagged_FromUntagged(kind) == kind >= KIND_RED - 1 /\ kind <= KIND_BLUE
\* w->nInDataKind >= 2 && w->nInDataKind <= 4
PlaneTagged(kind) == kind >= KIND_RED /\ kind <= KIND_BLUE

\* the clamp one byte short
CopyLen_OneShort(len, limit) == IF len >= limit THEN Max(limit - 1, 0) ELSE len
\* the copy length taken as declared, the clamp left out
CopyLen_Unclamped(len, limit) == len
\* if (cpLen > limit) cpLen = limit
CopyLen(len, limit) == IF len > limit THEN limit ELSE len

\* every other tag drops the red flag
HaveRed_DroppedByOthers(kind, haveRed) == IF kind = KIND_RED THEN 1 ELSE 0
\* a Green record drops the red flag
HaveRed_DroppedByGreen(kind, haveRed) ==
    IF kind = KIND_RED THEN 1 ELSE IF kind = KIND_GREEN THEN 0 ELSE haveRed
\* case 2: g_have_red = 1
HaveRedAfterTag(kind, haveRed) == IF kind = KIND_RED THEN 1 ELSE haveRed

\* a Red record sets the green flag too
HaveGreen_SetByRed(kind, haveGreen) ==
    IF kind = KIND_GREEN \/ kind = KIND_RED THEN 1 ELSE haveGreen
\* case 3: g_have_green = 1
HaveGreenAfterTag(kind, haveGreen) == IF kind = KIND_GREEN THEN 1 ELSE haveGreen

\* the test with the green flag left out
BufferOnly_IgnoresGreen(kind, haveRed, haveGreen) ==
    kind # KIND_BLUE \/ haveRed = 0
\* w->nInDataKind != 4 || !g_have_red || !g_have_green
BufferOnly(kind, haveRed, haveGreen) ==
    kind # KIND_BLUE \/ haveRed = 0 \/ haveGreen = 0

\* the pixel count one short
SafePixels_OneShort(planePixels, outLine) ==
    IF planePixels > outLine \div 3 THEN outLine \div 3 ELSE Max(planePixels - 1, 0)
\* safe_pixels
SafePixels(planePixels, outLine) ==
    IF planePixels > outLine \div 3 THEN outLine \div 3 ELSE planePixels

\* the switch without its SCIDC_WHITE case: a white record takes the default
PlaneDecode_WhiteAsUnknown(plane, comp, data, len, planePixels, junk) ==
    IF comp = SCIDC_NONCOMP
    THEN LET cpLen  == CopyLen(len, planePixels)
             copied == MemCpy(plane, 0, data, 0, cpLen, junk)
         IN  [out |-> IF cpLen < planePixels
                      THEN MemSet(copied, cpLen, 0, planePixels - cpLen)
                      ELSE copied,
              rd  |-> ReadExtent(0, 0, cpLen)]
    ELSE IF comp = SCIDC_PACK
    THEN LET dec == decode_packbits(data, len, plane, planePixels, junk)
         IN  [out |-> dec.out, rd |-> dec.rd]
    ELSE LET cpLen == CopyLen(len, planePixels)
         IN  [out |-> MemCpy(plane, 0, data, 0, cpLen, junk),
              rd  |-> ReadExtent(0, 0, cpLen)]
\* the switch on nInDataComp that fills one plane buffer
PlaneDecode(plane, comp, data, len, planePixels, junk) ==
    IF comp = SCIDC_WHITE
    THEN [out |-> MemSet(plane, 0, WHITE_BYTE, planePixels), rd |-> 0]
    ELSE IF comp = SCIDC_NONCOMP
    THEN LET cpLen  == CopyLen(len, planePixels)
             copied == MemCpy(plane, 0, data, 0, cpLen, junk)
         IN  [out |-> IF cpLen < planePixels
                      THEN MemSet(copied, cpLen, 0, planePixels - cpLen)
                      ELSE copied,
              rd  |-> ReadExtent(0, 0, cpLen)]
    ELSE IF comp = SCIDC_PACK
    THEN LET dec == decode_packbits(data, len, plane, planePixels, junk)
         IN  [out |-> dec.out, rd |-> dec.rd]
    ELSE LET cpLen == CopyLen(len, planePixels)
         IN  [out |-> MemCpy(plane, 0, data, 0, cpLen, junk),
              rd  |-> ReadExtent(0, 0, cpLen)]

\* the loop that writes R,G,B of pixel i at bytes 3i, 3i+1, 3i+2
RECURSIVE interleave_loop(_, _, _, _, _, _, _)
interleave_loop(dst, red, green, blue, safePixels, i, junk) ==
    IF ~(i < safePixels)
    THEN dst
    ELSE interleave_loop(
             Store(Store(Store(dst, i * 3 + 0, Load(red, i, junk)),
                         i * 3 + 1, Load(green, i, junk)),
                   i * 3 + 2, Load(blue, i, junk)),
             red, green, blue, safePixels, i + 1, junk)

\* memset(w->pWriteBuff, 0, outLine) and the interleaving loop
Interleave(dst, red, green, blue, safePixels, outLine, junk) ==
    interleave_loop(MemSet(dst, 0, 0, outLine), red, green, blue, safePixels, 0, junk)

\* a fresh malloc(n) block holds whatever the heap held
MallocBlock(n, junk) == [i \in 1 .. n |-> Load(<< >>, i - 1, junk)]

\* the grayscale / B&W path: memset of the line and the switch on nInDataComp
GrayDecode(dst, comp, data, len, outLine, bpp, pixelsPerLine, junk, mallocOk) ==
    LET zeroed == MemSet(dst, 0, 0, outLine)
    IN  IF comp = SCIDC_WHITE
        THEN [out |-> MemSet(zeroed, 0, WHITE_BYTE, outLine), rd |-> 0]
        ELSE IF comp = SCIDC_NONCOMP
        THEN IF bpp = 0
             THEN gray8_to_1bit(data, pixelsPerLine, zeroed, outLine, junk)
             ELSE LET rawLen == CopyLen(len, outLine)
                  IN  [out |-> MemCpy(zeroed, 0, data, 0, rawLen, junk),
                       rd  |-> ReadExtent(0, 0, rawLen)]
        ELSE IF comp = SCIDC_PACK
        THEN IF bpp = 0
             THEN IF mallocOk
                  THEN LET dec == decode_packbits(data, len,
                                      Track(MallocBlock(pixelsPerLine, junk)),
                                      pixelsPerLine, junk)
                       IN  [out |-> gray8_to_1bit(dec.out.mem, pixelsPerLine,
                                                  zeroed, outLine, junk).out,
                            rd  |-> dec.rd]
                  ELSE [out |-> zeroed, rd |-> 0]
             ELSE LET dec == decode_packbits(data, len, zeroed, outLine, junk)
                  IN  [out |-> dec.out, rd |-> dec.rd]
        ELSE LET rawLen == CopyLen(len, outLine)
             IN  [out |-> MemCpy(zeroed, 0, data, 0, rawLen, junk),
                  rd  |-> ReadExtent(0, 0, rawLen)]

\* the early return also drops the plane flags
WriteNothing_DropsFlags(in, status) ==
    [ret |-> 0, st |-> status, dst |-> in.dst,
     red |-> g_red_plane, green |-> g_green_plane, blue |-> g_blue_plane,
     have_red |-> 0, have_green |-> 0, acc |-> NoAccess]
\* what a call that touches nothing returns
WriteNothing(in, status) ==
    [ret |-> 0, st |-> status, dst |-> in.dst,
     red |-> g_red_plane, green |-> g_green_plane, blue |-> g_blue_plane,
     have_red |-> g_have_red, have_green |-> g_have_green, acc |-> NoAccess]

\* the 24-bit colour path
WritePlane(in, outLine, junk) ==
    LET kind     == in.kind
        haveRed  == HaveRedAfterTag(kind, g_have_red)
        haveGrn  == HaveGreenAfterTag(kind, g_have_green)
        planeBuf == IF kind = KIND_RED THEN g_red_plane
                    ELSE IF kind = KIND_GREEN THEN g_green_plane
                    ELSE g_blue_plane
        dec      == PlaneDecode(Track(planeBuf.mem), in.comp, in.data, Len(in.data),
                                g_plane_pixels, junk)
        red      == IF kind = KIND_RED THEN Block(dec.out.mem) ELSE g_red_plane
        green    == IF kind = KIND_GREEN THEN Block(dec.out.mem) ELSE g_green_plane
        blue     == IF kind # KIND_RED /\ kind # KIND_GREEN
                    THEN Block(dec.out.mem) ELSE g_blue_plane
        safe     == SafePixels(g_plane_pixels, outLine)
        line     == Interleave(Track(in.dst), red.mem, green.mem, blue.mem,
                               safe, outLine, junk)
    IN  IF BufferOnly(kind, haveRed, haveGrn)
        THEN [ret |-> 0, st |-> ST_NOLINE, dst |-> in.dst,
              red |-> red, green |-> green, blue |-> blue,
              have_red |-> haveRed, have_green |-> haveGrn,
              acc |-> [rd |-> dec.rd, wrDest |-> 0, wrPlane |-> dec.out.hi,
                       pixels |-> 0]]
        ELSE [ret |-> outLine, st |-> ST_LINE, dst |-> line.mem,
              red |-> red, green |-> green, blue |-> blue,
              have_red |-> 0, have_green |-> 0,
              acc |-> [rd |-> dec.rd, wrDest |-> line.hi, wrPlane |-> dec.out.hi,
                       pixels |-> safe]]

\* the grayscale / B&W path
WriteGray(in, outLine, junk, mallocOk) ==
    LET dec == GrayDecode(Track(in.dst), in.comp, in.data, Len(in.data), outLine,
                          g_bpp, g_open.dwOutLinePixCnt, junk, mallocOk)
    IN  [ret |-> outLine, st |-> ST_LINE, dst |-> dec.out.mem,
         red |-> g_red_plane, green |-> g_green_plane, blue |-> g_blue_plane,
         have_red |-> g_have_red, have_green |-> g_have_green,
         acc |-> [rd |-> dec.rd, wrDest |-> dec.out.hi, wrPlane |-> 0, pixels |-> 0]]

\* the test without its line-size half
LineRejected_OnlyZero(outLine, cap) == outLine = 0
\* the test without its zero half
LineRejected_ZeroAccepted(outLine, cap) == outLine > cap
\* outLine == 0 || outLine > w->dwWriteBuffSize
LineRejected(outLine, cap) == outLine = 0 \/ outLine > cap

\* the whole of ScanDecWrite on one record
WriteResult(in, junk, mallocOk) ==
    LET outLine == g_open.dwOutLineByte
    IN  IF ~in.wPresent \/ ~in.linePresent \/ ~in.buffPresent
        THEN WriteNothing(in, ST_FAULT)
        ELSE IF LineRejected(outLine, in.cap)
        THEN WriteNothing(in, ST_NOLINE)
        ELSE IF /\ g_bpp = 3
                /\ g_red_plane.alloc /\ g_green_plane.alloc /\ g_blue_plane.alloc
                /\ PlaneTagged(in.kind)
        THEN WritePlane(in, outLine, junk)
        ELSE WriteGray(in, outLine, junk, mallocOk)

\* a record with its references present
GoodRecord(comp, kind, data, cap, fill) ==
    [wPresent |-> TRUE, linePresent |-> TRUE, buffPresent |-> TRUE,
     comp |-> comp, kind |-> kind, data |-> data, cap |-> cap,
     dst |-> Fill(cap, fill), fill |-> fill]

\* a call with w, w->pLineData or w->pWriteBuff NULL
BadRecords(cap, fill) ==
    { [wPresent |-> FALSE, linePresent |-> FALSE, buffPresent |-> FALSE,
       comp |-> 0, kind |-> 0, data |-> << >>, cap |-> 0,
       dst |-> << >>, fill |-> fill],
      [wPresent |-> TRUE, linePresent |-> FALSE, buffPresent |-> TRUE,
       comp |-> SCIDC_NONCOMP, kind |-> KIND_RED, data |-> << >>, cap |-> cap,
       dst |-> Fill(cap, fill), fill |-> fill],
      [wPresent |-> TRUE, linePresent |-> TRUE, buffPresent |-> FALSE,
       comp |-> SCIDC_NONCOMP, kind |-> KIND_RED, data |-> <<1>>, cap |-> cap,
       dst |-> << >>, fill |-> fill] }

\* the records a caller may hand over in the current state
WriteRecords ==
    LET caps == { c \in { g_open.dwOutLineByte + d : d \in CapDeltas } :
                    c >= 0 /\ c < DwordMod }
    IN  { GoodRecord(comp, kind, data, cap, fill) :
             comp \in CompVals, kind \in KindVals, data \in LineVals,
             cap \in caps, fill \in DestFills }
        \cup UNION { BadRecords(g_open.dwOutLineByte, fill) : fill \in DestFills }

\* the choices the environment makes during the call that can show
JunkFor(in) ==
    IF g_bpp = 0 /\ in.comp \in {SCIDC_NONCOMP, SCIDC_PACK}
    THEN JunkImages ELSE {Fill(JunkLen, 0)}
MallocFor(in) ==
    IF g_bpp = 0 /\ in.comp = SCIDC_PACK THEN BOOLEAN ELSE {TRUE}

\* the call ScanDecWrite(in) with the result r
ScanDecWriteReturns(in, r) ==
    LET accepted == /\ in.wPresent /\ in.linePresent /\ in.buffPresent
                    /\ g_open.dwOutLineByte # 0
                    /\ g_open.dwOutLineByte <= in.cap
        inRow    == accepted /\ hist.opened /\ g_bpp = 3 /\ PlaneTagged(in.kind)
        line     == r.st = ST_LINE
    IN  /\ op' = "Write"
        /\ w' = [wPresent |-> in.wPresent, linePresent |-> in.linePresent,
                 buffPresent |-> in.buffPresent,
                 nInDataComp |-> in.comp, nInDataKind |-> in.kind,
                 pLineData |-> in.data, dwLineDataSize |-> Len(in.data),
                 fill |-> in.fill, pWriteBuff |-> r.dst, dwWriteBuffSize |-> in.cap]
        /\ ret' = r.ret
        /\ st' = r.st
        /\ g_red_plane' = r.red
        /\ g_green_plane' = r.green
        /\ g_blue_plane' = r.blue
        /\ g_have_red' = r.have_red
        /\ g_have_green' = r.have_green
        /\ acc' = r.acc
        /\ pre' = Snapshot
        /\ hist' = [opened  |-> hist.opened,
                    nplanes |-> hist.nplanes + (IF inRow THEN 1 ELSE 0),
                    rowR |-> IF line /\ inRow THEN FALSE
                             ELSE hist.rowR \/ (inRow /\ in.kind = KIND_RED),
                    rowG |-> IF line /\ inRow THEN FALSE
                             ELSE hist.rowG \/ (inRow /\ in.kind = KIND_GREEN),
                    failed  |-> hist.failed,
                    rowPage |-> IF line /\ inRow THEN FALSE ELSE hist.rowPage]
        /\ p' = NoOpen
        /\ UNCHANGED <<g_open, g_bpp, g_plane_pixels, pb, ord>>

ScanDecWrite ==
    /\ CanCall
    /\ \E in \in WriteRecords :
         \E junk \in JunkFor(in), mallocOk \in MallocFor(in) :
            \E r \in {WriteResult(in, junk, mallocOk)} :
               ScanDecWriteReturns(in, r)

----------------------------------------------------------------------------
\* the caller takes the result of the call and turns to the next one
CallerTakesResult ==
    /\ op # "none"
    /\ op' = "none"
    /\ p' = NoOpen /\ w' = NoWrite /\ ret' = 0 /\ st' = 0
    /\ pre' = NoSnapshot /\ acc' = NoAccess
    /\ UNCHANGED <<session, hist, pb, ord>>

Next ==
    \/ ScanDecOpen
    \/ ScanDecPageStart
    \/ ScanDecWrite
    \/ ScanDecPageEnd
    \/ ScanDecClose
    \/ CallerTakesResult

Spec == Init /\ [][Next]_vars

----------------------------------------------------------------------------
\* decode_packbits on its own: the inputs are drawn in the initial state and
\* the one action applies the decoder to them.

\* control bytes 0 and 1 (copy 1, copy 2), 128 (no-op), 254 and 255
\* (repeat 3, repeat 2); the same bytes serve as data
PBBytes == {0, 1, 128, 254, 255}
PBInputs == UNION { [1 .. k -> PBBytes] : k \in 0 .. PBMaxLen }

InitPB ==
    /\ g_open = ZeroOpen
    /\ g_bpp = 0
    /\ g_red_plane = NULLPTR
    /\ g_green_plane = NULLPTR
    /\ g_blue_plane = NULLPTR
    /\ g_plane_pixels = 0
    /\ g_have_red = 0
    /\ g_have_green = 0
    /\ op = "none"
    /\ p = NoOpen
    /\ w = NoWrite
    /\ ret = 0
    /\ st = 0
    /\ pre = NoSnapshot
    /\ acc = NoAccess
    /\ hist = NoHist
    /\ ord = OrdIdle
    /\ pb \in { [in |-> in, outMax |-> outMax, out0 |-> Fill(outMax, fill),
                 out |-> Fill(outMax, fill), oP |-> 0, rd |-> 0, hi |-> 0,
                 done |-> FALSE] :
                in \in PBInputs, outMax \in 0 .. PBMaxCap, fill \in DestFills }

PBDecode ==
    /\ ~pb.done
    /\ \E r \in {decode_packbits(pb.in, Len(pb.in), Track(pb.out0), pb.outMax,
                                 Fill(JunkLen, 0))} :
          pb' = [pb EXCEPT !.out = r.out.mem, !.oP = r.oP, !.rd = r.rd,
                           !.hi = r.out.hi, !.done = TRUE]
    /\ UNCHANGED <<session, op, p, w, ret, st, pre, acc, hist, ord>>

NextPB == PBDecode

SpecPB == InitPB /\ [][NextPB]_vars

----------------------------------------------------------------------------
\* One row of a 24-bit session submitted twice: ScanDecOpen, an optional
\* record that fills a plane beforehand, then Red, Green, Blue; and the same
\* calls again from a new ScanDecOpen with Green before Red.  The script is
\* drawn in the initial state; ord.pc counts the calls whose result the
\* caller has taken.

\* the session globals
SessionNow ==
    [open |-> g_open, bpp |-> g_bpp, red |-> g_red_plane, green |-> g_green_plane,
     blue |-> g_blue_plane, plane_pixels |-> g_plane_pixels,
     have_red |-> g_have_red, have_green |-> g_have_green]

\* the records of one plane the script may use
OrdRecords(kind, cap, fill) ==
    { GoodRecord(comp, kind, data, cap, fill) : comp \in CompVals, data \in LineVals }

\* the Blue records the script may use: one payload under every code
OrdBlues(cap, fill) ==
    { GoodRecord(comp, KIND_BLUE, <<200, 1>>, cap, fill) : comp \in CompVals }

\* what may go before the row: nothing, or a white Red or Green record
OrdPrefixes(cap, fill) ==
    { << >>,
      <<GoodRecord(SCIDC_WHITE, KIND_RED, << >>, cap, fill)>>,
      <<GoodRecord(SCIDC_WHITE, KIND_GREEN, << >>, cap, fill)>> }

OrdScripts ==
    UNION { { [pc |-> 0, n |-> n, lb |-> lb, prefix |-> pf,
               recR |-> r, recG |-> g, recB |-> b,
               starts |-> << >>, ends |-> << >>, outs |-> << >>] :
                pf \in OrdPrefixes(OutLineByte(SC_24BIT, n, lb), fill),
                r \in OrdRecords(KIND_RED, OutLineByte(SC_24BIT, n, lb), fill),
                g \in OrdRecords(KIND_GREEN, OutLineByte(SC_24BIT, n, lb), fill),
                b \in OrdBlues(OutLineByte(SC_24BIT, n, lb), fill) } :
            n \in 1 .. MaxN, lb \in {0, 1}, fill \in DestFills }

\* the calls of one run
OrdRunLen == 4 + Len(ord.prefix)

\* the calls of both runs
OrdScript ==
    LET open == <<[call |-> "Open", rec |-> ord.recB]>>
        pre1 == [i \in 1 .. Len(ord.prefix) |-> [call |-> "Write", rec |-> ord.prefix[i]]]
        red  == [call |-> "Write", rec |-> ord.recR]
        grn  == [call |-> "Write", rec |-> ord.recG]
        blu  == [call |-> "Write", rec |-> ord.recB]
    IN  open \o pre1 \o <<red, grn, blu>> \o open \o pre1 \o <<grn, red, blu>>

InitOrder ==
    /\ g_open = ZeroOpen
    /\ g_bpp = 0
    /\ g_red_plane = NULLPTR
    /\ g_green_plane = NULLPTR
    /\ g_blue_plane = NULLPTR
    /\ g_plane_pixels = 0
    /\ g_have_red = 0
    /\ g_have_green = 0
    /\ op = "none"
    /\ p = NoOpen
    /\ w = NoWrite
    /\ ret = 0
    /\ st = 0
    /\ pre = NoSnapshot
    /\ acc = NoAccess
    /\ hist = NoHist
    /\ pb = PBIdle
    /\ ord \in OrdScripts

\* the next call of the script
OrderCall ==
    /\ op = "none"
    /\ ord.pc < 2 * OrdRunLen
    /\ LET c == OrdScript[ord.pc + 1]
       IN  IF c.call = "Open"
           THEN ScanDecOpenWith(SC_24BIT, ord.n, ord.lb, <<TRUE, TRUE, TRUE>>)
           ELSE /\ CanCall
                /\ \E r \in {WriteResult(c.rec, Fill(JunkLen, 0), TRUE)} :
                      ScanDecWriteReturns(c.rec, r)

\* the caller takes the result and notes it: the session before and after
\* the three records of the row, and what each of the three returned
OrderTake ==
    /\ op # "none"
    /\ LET pos == (ord.pc % OrdRunLen) + 1
           out == [kind |-> w.nInDataKind, st |-> st, ret |-> ret, dst |-> w.pWriteBuff]
       IN  ord' = [ord EXCEPT
                     !.pc = @ + 1,
                     !.starts = IF pos = OrdRunLen - 3 THEN Append(@, SessionNow) ELSE @,
                     !.ends = IF pos = OrdRunLen THEN Append(@, SessionNow) ELSE @,
                     !.outs = IF pos > OrdRunLen - 3 THEN Append(@, out) ELSE @]
    /\ op' = "none"
    /\ p' = NoOpen /\ w' = NoWrite /\ ret' = 0 /\ st' = 0
    /\ pre' = NoSnapshot /\ acc' = NoAccess
    /\ hist' = [hist EXCEPT !.nplanes = 0]
    /\ UNCHANGED <<session, pb>>

NextOrder == OrderCall \/ OrderTake

SpecOrder == InitOrder /\ [][NextOrder]_vars

----------------------------------------------------------------------------
\* Two rows of a 24-bit session: ScanDecOpen, an earlier row of three white
\* plane records, then the row Red, Green, Blue; and the same row again as
\* the first one after a new ScanDecOpen.  The script is drawn in the
\* initial state and kept in ord, as for the row submitted in both orders.

\* the earlier row: every sample of the three planes 0xFF
RowsEarlier(cap, fill) ==
    << GoodRecord(SCIDC_WHITE, KIND_RED, << >>, cap, fill),
       GoodRecord(SCIDC_WHITE, KIND_GREEN, << >>, cap, fill),
       GoodRecord(SCIDC_WHITE, KIND_BLUE, << >>, cap, fill) >>

RowsScripts ==
    UNION { { [pc |-> 0, n |-> n, lb |-> lb,
               prefix |-> RowsEarlier(OutLineByte(SC_24BIT, n, lb), fill),
               recR |-> r, recG |-> g, recB |-> b,
               starts |-> << >>, ends |-> << >>, outs |-> << >>] :
                r \in OrdRecords(KIND_RED, OutLineByte(SC_24BIT, n, lb), fill),
                g \in OrdRecords(KIND_GREEN, OutLineByte(SC_24BIT, n, lb), fill),
                b \in OrdBlues(OutLineByte(SC_24BIT, n, lb), fill) } :
            n \in 1 .. MaxN, lb \in {0, 1}, fill \in DestFills }

\* the calls of both runs
RowsScript ==
    LET open == <<[call |-> "Open", rec |-> ord.recB]>>
        pre1 == [i \in 1 .. Len(ord.prefix) |-> [call |-> "Write", rec |-> ord.prefix[i]]]
        row  == << [call |-> "Write", rec |-> ord.recR],
                   [call |-> "Write", rec |-> ord.recG],
                   [call |-> "Write", rec |-> ord.recB] >>
    IN  open \o pre1 \o row \o open \o row

InitRows ==
    /\ g_open = ZeroOpen
    /\ g_bpp = 0
    /\ g_red_plane = NULLPTR
    /\ g_green_plane = NULLPTR
    /\ g_blue_plane = NULLPTR
    /\ g_plane_pixels = 0
    /\ g_have_red = 0
    /\ g_have_green = 0
    /\ op = "none"
    /\ p = NoOpen
    /\ w = NoWrite
    /\ ret = 0
    /\ st = 0
    /\ pre = NoSnapshot
    /\ acc = NoAccess
    /\ hist = NoHist
    /\ pb = PBIdle
    /\ ord \in RowsScripts

\* the next call of the script
RowsCall ==
    /\ op = "none"
    /\ ord.pc < Len(RowsScript)
    /\ LET c == RowsScript[ord.pc + 1]
       IN  IF c.call = "Open"
           THEN ScanDecOpenWith(SC_24BIT, ord.n, ord.lb, <<TRUE, TRUE, TRUE>>)
           ELSE /\ CanCall
                /\ \E r \in {WriteResult(c.rec, Fill(JunkLen, 0), TRUE)} :
                      ScanDecWriteReturns(c.rec, r)

\* the caller takes the result and notes what the three records of the row
\* returned in either run, and the earlier row's line
RowsTake ==
    /\ op # "none"
    /\ LET out == [kind |-> w.nInDataKind, st |-> st, ret |-> ret, dst |-> w.pWriteBuff]
           inRow == ord.pc >= Len(ord.prefix) + 1 /\ op = "Write"
           earlier == ord.pc = Len(ord.prefix) /\ op = "Write"
       IN  ord' = [ord EXCEPT
                     !.pc = @ + 1,
                     !.starts = IF earlier THEN Append(@, out) ELSE @,
                     !.outs = IF inRow THEN Append(@, out) ELSE @]
    /\ op' = "none"
    /\ p' = NoOpen /\ w' = NoWrite /\ ret' = 0 /\ st' = 0
    /\ pre' = NoSnapshot /\ acc' = NoAccess
    /\ hist' = [hist EXCEPT !.nplanes = 0]
    /\ UNCHANGED <<session, pb>>

NextRows == RowsCall \/ RowsTake

SpecRows == InitRows /\ [][NextRows]_vars

----------------------------------------------------------------------------
\* Properties.  In a state with op = "Write" the variables hold the result of
\* the call, w the record as returned, pre the state before the call and acc
\* the extents of the memory the call touched.

\* the record passed the NULL tests and the line-size test
WriteAccepted ==
    /\ op = "Write"
    /\ w.wPresent /\ w.linePresent /\ w.buffPresent
    /\ g_open.dwOutLineByte # 0
    /\ g_open.dwOutLineByte <= w.dwWriteBuffSize

\* a 24-bit session that ScanDecOpen reported as opened
RgbSession == hist.opened /\ g_bpp = 3

\* the destination as the caller handed it over
DestBefore == Fill(w.dwWriteBuffSize, w.fill)

\* C1 (as stated): in a 24-bit session a plane-tagged record is reported as a
\* line only if it is Blue and a Red and a Green record were accepted since
\* the later of the Open and the previous line report, and after every line
\* report both plane flags are clear.
C1_EmittedOnlyOnTriple ==
    (op = "Write" /\ RgbSession /\ st = ST_LINE) =>
        /\ g_have_red = 0 /\ g_have_green = 0
        /\ PlaneTagged(w.nInDataKind) =>
              /\ w.nInDataKind = KIND_BLUE
              /\ pre.hist.rowR /\ pre.hist.rowG

\* C1 (amended): the same for the line reports of plane-tagged records, the
\* row running since the later of the Open and the previous line report of a
\* plane-tagged record.
C1_TaggedEmittedOnlyOnTriple ==
    (op = "Write" /\ RgbSession /\ st = ST_LINE /\ PlaneTagged(w.nInDataKind)) =>
        /\ w.nInDataKind = KIND_BLUE
        /\ pre.hist.rowR /\ pre.hist.rowG
        /\ g_have_red = 0 /\ g_have_green = 0

\* C1 witness: a Blue record completes a row and is reported as a line
C1_Witness ==
    /\ op = "Write" /\ RgbSession /\ st = ST_LINE
    /\ w.nInDataKind = KIND_BLUE
    /\ pre.hist.rowR /\ pre.hist.rowG
    /\ pre.have_red = 1 /\ pre.have_green = 1

\* C2 (as stated): an accepted Blue record with Red or Green not filled is
\* reported as buffered with 0 bytes, and afterwards neither plane flag is set.
C2_PartialRowDiscarded ==
    (WriteAccepted /\ RgbSession /\ w.nInDataKind = KIND_BLUE
       /\ (pre.have_red = 0 \/ pre.have_green = 0)) =>
        /\ st = ST_NOLINE /\ ret = 0
        /\ g_have_red = 0 /\ g_have_green = 0

\* C2 (amended): such a record is reported as buffered with 0 bytes and the
\* partial row is kept: both plane flags, the red and green plane buffers and
\* the destination are as before the call.
C2_PartialRowKept ==
    (WriteAccepted /\ RgbSession /\ w.nInDataKind = KIND_BLUE
       /\ (pre.have_red = 0 \/ pre.have_green = 0)) =>
        /\ st = ST_NOLINE /\ ret = 0
        /\ g_have_red = pre.have_red /\ g_have_green = pre.have_green
        /\ g_red_plane = pre.red /\ g_green_plane = pre.green
        /\ w.pWriteBuff = DestBefore

\* C2 witness: Blue arrives with Red filled and Green missing
C2_Witness ==
    /\ WriteAccepted /\ RgbSession /\ w.nInDataKind = KIND_BLUE
    /\ pre.have_red = 1 /\ pre.have_green = 0
    /\ st = ST_NOLINE /\ g_have_red = 1

\* an accepted Blue record that found Red and Green filled
RowCompleted ==
    /\ WriteAccepted /\ RgbSession /\ w.nInDataKind = KIND_BLUE
    /\ pre.have_red = 1 /\ pre.have_green = 1

\* P = min(N, destinationCapacity / 3)
RowPixels == Min(g_open.dwInLinePixCnt, w.dwWriteBuffSize \div 3)

\* byte i of a RawCopy record as it lands in a plane: the data, then zeros
RawSample(i) == IF i < w.dwLineDataSize THEN w.pLineData[i + 1] ELSE 0

\* bytes 3i, 3i+1, 3i+2 of the destination hold R[i], G[i], B[i] for i < P,
\* R and G being the planes buffered before the call
RowInterleaved ==
    \A i \in 0 .. RowPixels - 1 :
       /\ w.pWriteBuff[3 * i + 1] = pre.red.mem[i + 1]
       /\ w.pWriteBuff[3 * i + 2] = pre.green.mem[i + 1]
       /\ w.pWriteBuff[3 * i + 3] = g_blue_plane.mem[i + 1]
       /\ w.nInDataComp = SCIDC_NONCOMP => g_blue_plane.mem[i + 1] = RawSample(i)
       /\ w.nInDataComp = SCIDC_WHITE => g_blue_plane.mem[i + 1] = WHITE_BYTE

\* C3 (as stated): when Blue arrives with Red and Green filled the
\* destination holds the interleaved pixels and the reported count is 3*P.
C3_InterleavedCountIs3P ==
    RowCompleted => RowInterleaved /\ ret = 3 * RowPixels

\* C3 (amended): the destination holds the interleaved pixels, every byte
\* from 3*P up to the line size is zero, and the reported count is the line
\* size dwOutLineByte (3*N, rounded up to a multiple of 4 under alignment).
C3_InterleavedCountIsLine ==
    RowCompleted =>
        /\ st = ST_LINE
        /\ RowInterleaved
        /\ ret = g_open.dwOutLineByte
        /\ ret >= 3 * RowPixels
        /\ g_open.bLongBoundary = 0 => ret = 3 * RowPixels
        /\ g_open.bLongBoundary # 0 => ret % 4 = 0 /\ ret < 3 * RowPixels + 4
        /\ \A k \in 3 * RowPixels + 1 .. ret : w.pWriteBuff[k] = 0

\* C3 witness: an aligned two-pixel row, Red raw, Green white, Blue raw
C3_Witness ==
    /\ RowCompleted
    /\ g_open.bLongBoundary = 1 /\ g_open.dwInLinePixCnt = 2
    /\ ret = 8
    /\ w.pWriteBuff = <<1, 255, 200, 200, 255, 1, 0, 0>>

\* C4: ScanDecOpen with dwInLinePixCnt = 0 fails and leaves no session open.
C4_OpenZeroFails ==
    (op = "Open" /\ p.present /\ p.val.dwInLinePixCnt = 0) =>
        ret = C_FALSE /\ ~hist.opened

\* ceil(N/8), N or 3*N, in unbounded arithmetic
IdealLineBytes(ct, n) ==
    IF ct = SC_24BIT THEN 3 * n
    ELSE IF ct = SC_8BIT THEN n
    ELSE (n + 7) \div 8

\* x rounded up to the next multiple of 4, in unbounded arithmetic
IdealAlign(x) == 4 * ((x + 3) \div 4)

\* C5: for N > 0 ScanDecOpen sets dwOutLineByte to ceil(N/8), N or 3*N by
\* colour mode (a mode with no recognised bit as 1-bit), rounded up to a
\* multiple of 4 under alignment, and dwOutWriteMaxSize to 16 times that.
C5_LayoutAsSpecified ==
    (op = "Open" /\ p.present /\ p.val.dwInLinePixCnt > 0) =>
        LET base == IdealLineBytes(p.val.nColorType, p.val.dwInLinePixCnt)
            line == IF p.val.bLongBoundary # 0 THEN IdealAlign(base) ELSE base
        IN  /\ p.val.dwOutLineByte = line
            /\ p.val.dwOutWriteMaxSize = 16 * line

\* C6: under alignment, in DWORD arithmetic, dwOutLineByte is a multiple of 4
\* and not below the unaligned line size for the same mode and N.
C6_AlignedNotBelowUnaligned ==
    (op = "Open" /\ p.present /\ p.val.bLongBoundary # 0) =>
        /\ p.val.dwOutLineByte % 4 = 0
        /\ p.val.dwOutLineByte >= LineBytes(p.val.nColorType, p.val.dwInLinePixCnt)

\* C7: while a session is open with N > 0 the stored dwOutLineByte is > 0.
C7_OpenLineBytesPositive ==
    (hist.opened /\ g_open.dwInLinePixCnt > 0) => g_open.dwOutLineByte > 0

\* C8: ScanDecWrite reads no input byte at an index >= dwLineDataSize.
C8_NoReadPastDeclaredLength ==
    op = "Write" => acc.rd <= w.dwLineDataSize

\* C9: ScanDecWrite writes no destination byte at an index >= dwWriteBuffSize
\* and no plane byte at an index >= N, and interleaves at most
\* dwWriteBuffSize / 3 pixels.
C9_WritesWithinBounds ==
    op = "Write" =>
        /\ acc.wrDest <= w.dwWriteBuffSize
        /\ acc.wrPlane <= g_open.dwInLinePixCnt
        /\ acc.pixels <= w.dwWriteBuffSize \div 3
        /\ Len(w.pWriteBuff) = (IF w.buffPresent THEN w.dwWriteBuffSize ELSE 0)

\* C9 witness: a record longer than the plane completes a row whose
\* destination is exactly one line
C9_Witness ==
    /\ RowCompleted /\ st = ST_LINE
    /\ w.dwLineDataSize > g_open.dwInLinePixCnt
    /\ acc.wrPlane = g_open.dwInLinePixCnt
    /\ acc.wrDest = w.dwWriteBuffSize
    /\ acc.pixels = g_open.dwInLinePixCnt

\* the TIFF PackBits expansion of a whole byte sequence: 0..127 copies the
\* next c+1 bytes (as many as there are), 128 does nothing, 129..255 repeats
\* the next byte 257-c times (nothing when there is no next byte)
RECURSIVE PackBitsExpansion(_)
PackBitsExpansion(s) ==
    IF s = << >> THEN << >>
    ELSE LET c == Head(s)
             rest == Tail(s)
         IN  IF c <= 127
             THEN LET k == Min(c + 1, Len(rest))
                  IN  SubSeq(rest, 1, k)
                         \o PackBitsExpansion(SubSeq(rest, k + 1, Len(rest)))
             ELSE IF c = 128 THEN PackBitsExpansion(rest)
             ELSE IF rest = << >> THEN << >>
             ELSE Fill(257 - c, Head(rest)) \o PackBitsExpansion(Tail(rest))

\* C10: decode_packbits writes the PackBits expansion of its input cut at
\* the capacity, returns the number of bytes written and leaves the
\* destination from that count on as it was.
C10_PackBitsIsReferenceExpansion ==
    pb.done =>
        LET ref == PackBitsExpansion(pb.in)
            k   == Min(Len(ref), pb.outMax)
        IN  /\ pb.oP = k
            /\ pb.hi <= k
            /\ pb.rd <= Len(pb.in)
            /\ Len(pb.out) = pb.outMax
            /\ \A i \in 1 .. pb.outMax :
                  pb.out[i] = IF i <= k THEN ref[i] ELSE pb.out0[i]

\* C10 witness: a literal run, then a repeat run that the capacity cuts
C10_Witness ==
    /\ pb.done
    /\ pb.in = <<0, 255, 254, 1>>
    /\ pb.outMax = 3
    /\ pb.oP = 3
    /\ pb.out = <<255, 1, 1>>

\* bit k (MSB first) of a byte
BitAt(byte, k) == (byte \div (2 ^ (7 - k))) % 2

\* ceil(N/8) for the open session
PackedBytes == (g_open.dwInLinePixCnt + 7) \div 8

\* an accepted RawCopy record of at least N samples in a 1-bit session
MonoRawLine ==
    /\ WriteAccepted /\ hist.opened /\ g_bpp = 0
    /\ w.nInDataComp = SCIDC_NONCOMP
    /\ g_open.dwInLinePixCnt > 0
    /\ w.dwLineDataSize >= g_open.dwInLinePixCnt

\* bit i of the line is set iff i < N and sample i is >= 128, over nbytes bytes
QuantizedOver(nbytes) ==
    \A i \in 0 .. 8 * nbytes - 1 :
       BitAt(w.pWriteBuff[(i \div 8) + 1], i % 8) = 1
          <=> (i < g_open.dwInLinePixCnt /\ w.pLineData[i + 1] >= 128)

\* C11 (as stated): in a 1-bit session a RawCopy record of N samples is
\* reported as a line of ceil(N/8) bytes whose bit i, MSB first, is set iff
\* sample i >= 128, the bits from N on being 0.
C11_PackedLineOfCeilBytes ==
    MonoRawLine =>
        /\ st = ST_LINE
        /\ ret = PackedBytes
        /\ QuantizedOver(PackedBytes)

\* C11 (amended): the line has dwOutLineByte bytes (ceil(N/8), rounded up to
\* a multiple of 4 under alignment), with the same bits, every bit from N to
\* the end of the line being 0.
C11_PackedLineOfLineBytes ==
    MonoRawLine =>
        /\ st = ST_LINE
        /\ ret = g_open.dwOutLineByte
        /\ ret >= PackedBytes
        /\ g_open.bLongBoundary = 0 => ret = PackedBytes
        /\ g_open.bLongBoundary # 0 => ret % 4 = 0 /\ ret < PackedBytes + 4
        /\ QuantizedOver(ret)

\* C11 witness: two samples, the first white, in an aligned 1-bit session
C11_Witness ==
    /\ MonoRawLine
    /\ g_open.bLongBoundary = 1 /\ g_open.dwInLinePixCnt = 2
    /\ w.pLineData = <<200, 1>>
    /\ ret = 4
    /\ SubSeq(w.pWriteBuff, 1, 4) = <<128, 0, 0, 0>>

\* C12: a WhiteFill record makes every byte of the reported line 0xFF in a
\* 1-bit or 8-bit session, aligned or not, and every byte of the tagged plane
\* buffer 0xFF in a 24-bit session, whatever the payload.
C12_WhiteFillsAll ==
    (WriteAccepted /\ hist.opened /\ w.nInDataComp = SCIDC_WHITE) =>
        /\ g_bpp # 3 =>
              /\ st = ST_LINE /\ ret = g_open.dwOutLineByte
              /\ \A k \in 1 .. ret : w.pWriteBuff[k] = 255
        /\ (g_bpp = 3 /\ PlaneTagged(w.nInDataKind)) =>
              LET plane == IF w.nInDataKind = KIND_RED THEN g_red_plane
                           ELSE IF w.nInDataKind = KIND_GREEN THEN g_green_plane
                           ELSE g_blue_plane
              IN  /\ Len(plane.mem) = g_open.dwInLinePixCnt
                  /\ \A k \in 1 .. Len(plane.mem) : plane.mem[k] = 255

\* C12 witness: a white Green record with a payload fills a two-pixel plane
C12_Witness ==
    /\ WriteAccepted /\ RgbSession /\ w.nInDataComp = SCIDC_WHITE
    /\ w.nInDataKind = KIND_GREEN
    /\ w.pLineData = <<1, 200>>
    /\ pre.green.mem = <<0, 0>>
    /\ g_green_plane.mem = <<255, 255>>

\* an accepted RawCopy record in an 8-bit session
GrayRawLine ==
    /\ WriteAccepted /\ hist.opened /\ g_bpp = 1
    /\ w.nInDataComp = SCIDC_NONCOMP

\* C13 (as stated): in an 8-bit session a RawCopy record copies exactly
\* min(declared length, destination capacity) bytes to the start of the
\* destination.
C13_CopiesMinOfLengthAndCapacity ==
    GrayRawLine =>
        LET k == Min(w.dwLineDataSize, w.dwWriteBuffSize)
        IN  /\ acc.rd = k
            /\ \A i \in 1 .. k : w.pWriteBuff[i] = w.pLineData[i]

\* C13 (amended): it copies exactly min(declared length, dwOutLineByte)
\* bytes, zeroes the rest of the line, leaves the destination beyond the line
\* as it was and reports the line.
C13_CopiesMinOfLengthAndLine ==
    GrayRawLine =>
        LET k == Min(w.dwLineDataSize, g_open.dwOutLineByte)
        IN  /\ st = ST_LINE /\ ret = g_open.dwOutLineByte
            /\ acc.rd = k
            /\ \A i \in 1 .. w.dwWriteBuffSize :
                  w.pWriteBuff[i] = IF i <= k THEN w.pLineData[i]
                                    ELSE IF i <= ret THEN 0
                                    ELSE DestBefore[i]

\* C13 witness: a two-byte record, a one-byte line, a two-byte destination
C13_Witness ==
    /\ GrayRawLine
    /\ w.pLineData = <<1, 200>>
    /\ g_open.dwOutLineByte = 1 /\ w.dwWriteBuffSize = 2
    /\ w.pWriteBuff = <<1, 85>>

\* C14: a record with a compression code that is none of the three known
\* ones has the effect of the same record with SCIDC_NONCOMP: the same
\* destination, count, status, plane buffers and plane flags.
C14_UnknownActsAsRawCopy ==
    [][ (/\ op' = "Write"
         /\ w'.wPresent /\ w'.linePresent /\ w'.buffPresent
         /\ w'.nInDataComp = SCIDC_OTHER)
        => \E junk \in JunkImages :
              LET twin == WriteResult(
                              GoodRecord(SCIDC_NONCOMP, w'.nInDataKind, w'.pLineData,
                                         w'.dwWriteBuffSize, w'.fill),
                              junk, TRUE)
              IN  /\ w'.pWriteBuff = twin.dst
                  /\ ret' = twin.ret
                  /\ st' = twin.st
                  /\ g_red_plane' = twin.red
                  /\ g_green_plane' = twin.green
                  /\ g_blue_plane' = twin.blue
                  /\ g_have_red' = twin.have_red
                  /\ g_have_green' = twin.have_green ]_vars

\* the session variables are as before the call
SessionAsBefore ==
    /\ g_open = pre.open /\ g_bpp = pre.bpp
    /\ g_red_plane = pre.red /\ g_green_plane = pre.green /\ g_blue_plane = pre.blue
    /\ g_plane_pixels = pre.plane_pixels
    /\ g_have_red = pre.have_red /\ g_have_green = pre.have_green

\* C15: ScanDecWrite reports a fault exactly when w, w->pLineData or
\* w->pWriteBuff is NULL (never for a record of length 0 with both buffers
\* present), and a fault returns 0 and leaves the session as it was.
C15_FaultIffReferenceAbsent ==
    op = "Write" =>
        /\ st = ST_FAULT <=> ~(w.wPresent /\ w.linePresent /\ w.buffPresent)
        /\ st = ST_FAULT => ret = 0 /\ SessionAsBefore /\ acc = NoAccess

\* C15 witness: a record without input buffer arrives mid-row and faults
C15_Witness ==
    /\ op = "Write" /\ st = ST_FAULT
    /\ w.wPresent /\ ~w.linePresent /\ w.buffPresent
    /\ RgbSession /\ pre.have_red = 1 /\ g_have_red = 1

\* C16: when one of the three calloc calls of a 24-bit ScanDecOpen fails,
\* whichever it is, the call returns FALSE and leaves no plane allocated.
C16_FailedOpenLeavesNoPlane ==
    (op = "Open" /\ p.present /\ g_bpp = 3 /\ \E k \in 1 .. 3 : ~p.calloc[k]) =>
        /\ ret = C_FALSE
        /\ ~hist.opened
        /\ g_red_plane = NULLPTR /\ g_green_plane = NULLPTR /\ g_blue_plane = NULLPTR

\* C16 witness: only the third reservation fails
C16_Witness ==
    /\ op = "Open" /\ p.present /\ g_bpp = 3
    /\ p.calloc = <<TRUE, TRUE, FALSE>>
    /\ p.val.dwInLinePixCnt = 2
    /\ ret = C_FALSE

\* the state ScanDecClose leaves
SessionCleared ==
    /\ g_open = ZeroOpen /\ g_bpp = 0
    /\ g_red_plane = NULLPTR /\ g_green_plane = NULLPTR /\ g_blue_plane = NULLPTR
    /\ g_plane_pixels = 0
    /\ g_have_red = 0 /\ g_have_green = 0

\* C17: ScanDecClose returns TRUE in every state and leaves the cleared
\* state, so a ScanDecClose on the cleared state changes nothing.
C17_CloseClearsAndIsIdempotent ==
    op = "Close" =>
        /\ ret = C_TRUE
        /\ SessionCleared
        /\ ~hist.opened
        /\ (/\ pre.open = ZeroOpen /\ pre.bpp = 0 /\ pre.plane_pixels = 0
            /\ ~pre.red.alloc /\ ~pre.green.alloc /\ ~pre.blue.alloc
            /\ pre.have_red = 0 /\ pre.have_green = 0) => SessionAsBefore

\* C17 witness: a close in the middle of a row of an open 24-bit session
C17_Witness ==
    /\ op = "Close" /\ ret = C_TRUE
    /\ pre.hist.opened /\ pre.bpp = 3 /\ pre.red.alloc
    /\ pre.have_red = 1 /\ pre.have_green = 0
    /\ g_have_red = 0

\* C18: every successful ScanDecOpen leaves the plane flags clear and, in a
\* 24-bit session, three fresh zeroed planes of N bytes, whatever the state
\* before; and a Blue record is buffered unless a Red and a Green record
\* were accepted since that Open.
C18_OpenStartsFreshRow ==
    /\ (op = "Open" /\ p.present /\ ret = C_TRUE) =>
          /\ g_have_red = 0 /\ g_have_green = 0
          /\ ~hist.rowR /\ ~hist.rowG
          /\ g_bpp = 3 =>
                /\ g_red_plane = Block(Fill(p.val.dwInLinePixCnt, 0))
                /\ g_green_plane = Block(Fill(p.val.dwInLinePixCnt, 0))
                /\ g_blue_plane = Block(Fill(p.val.dwInLinePixCnt, 0))
    /\ (WriteAccepted /\ RgbSession /\ w.nInDataKind = KIND_BLUE
          /\ ~(pre.hist.rowR /\ pre.hist.rowG)) =>
          st = ST_NOLINE /\ ret = 0

\* C18 witness: a 24-bit open on a session that is open in the middle of a row
C18_Witness ==
    /\ op = "Open" /\ p.present /\ ret = C_TRUE /\ g_bpp = 3
    /\ pre.hist.opened /\ pre.bpp = 3 /\ pre.hist.rowR /\ pre.have_red = 1
    /\ g_have_red = 0

\* what a record leaves in its own plane, given the plane before: white is
\* all 0xFF, RawCopy the samples then zeros, PackBits the expansion and an
\* unknown code the samples, both over what was there
OwnPlaneDecoded(plane, before) ==
    LET ref == PackBitsExpansion(w.pLineData)
    IN  /\ Len(plane.mem) = g_open.dwInLinePixCnt
        /\ \A i \in 0 .. g_open.dwInLinePixCnt - 1 :
              plane.mem[i + 1] =
                 IF w.nInDataComp = SCIDC_WHITE THEN 255
                 ELSE IF w.nInDataComp = SCIDC_NONCOMP THEN RawSample(i)
                 ELSE IF w.nInDataComp = SCIDC_PACK
                 THEN (IF i < Len(ref) THEN ref[i + 1] ELSE before.mem[i + 1])
                 ELSE (IF i < w.dwLineDataSize THEN w.pLineData[i + 1]
                       ELSE before.mem[i + 1])

\* C20: in a 24-bit session a Red or Green record is decoded byte per sample
\* into its own plane, sets its own flag, is reported as buffered with 0
\* bytes, and leaves the destination, the other planes and the other flag.
C20_PlaneRecordTouchesOwnPlaneOnly ==
    (WriteAccepted /\ RgbSession /\ w.nInDataKind \in {KIND_RED, KIND_GREEN}) =>
        /\ st = ST_NOLINE /\ ret = 0
        /\ w.pWriteBuff = DestBefore /\ acc.wrDest = 0
        /\ g_blue_plane = pre.blue
        /\ w.nInDataKind = KIND_RED =>
              /\ g_have_red = 1 /\ g_have_green = pre.have_green
              /\ g_green_plane = pre.green
              /\ OwnPlaneDecoded(g_red_plane, pre.red)
        /\ w.nInDataKind = KIND_GREEN =>
              /\ g_have_green = 1 /\ g_have_red = pre.have_red
              /\ g_red_plane = pre.red
              /\ OwnPlaneDecoded(g_green_plane, pre.green)

\* C20 witness: a raw Red record lands unquantized while Green is filled
C20_Witness ==
    /\ WriteAccepted /\ RgbSession /\ w.nInDataKind = KIND_RED
    /\ w.nInDataComp = SCIDC_NONCOMP /\ w.pLineData = <<200, 1>>
    /\ pre.have_red = 0 /\ pre.have_green = 1
    /\ g_red_plane.mem = <<200, 1>>
    /\ g_have_red = 1 /\ g_have_green = 1

\* both runs of the row harness are over
OrdDone == ord.pc > 0 /\ ord.pc = 2 * OrdRunLen

\* C19: from the same session state, Red, Green, Blue and Green, Red, Blue
\* with the same payloads give the same results for the two buffered calls,
\* the same line on Blue and the same session state afterwards.
C19_RedGreenOrderIrrelevant ==
    OrdDone =>
        LET redA == ord.outs[1]  grnA == ord.outs[2]  bluA == ord.outs[3]
            grnB == ord.outs[4]  redB == ord.outs[5]  bluB == ord.outs[6]
        IN  /\ ord.starts[1] = ord.starts[2]
            /\ redA.kind = KIND_RED /\ grnB.kind = KIND_GREEN
            /\ redA = redB
            /\ grnA = grnB
            /\ redA.st = grnB.st /\ redA.ret = grnB.ret /\ redA.dst = grnB.dst
            /\ grnA.st = redB.st /\ grnA.ret = redB.ret /\ grnA.dst = redB.dst
            /\ bluA.st = ST_LINE
            /\ bluA = bluB
            /\ ord.ends[1] = ord.ends[2]

\* C19 witness: a row after a white Red record, the Red payload raw, the
\* Green packed, the Blue under an unknown code
C19_Witness ==
    /\ OrdDone
    /\ Len(ord.prefix) = 1 /\ ord.n = 2 /\ ord.lb = 0
    /\ ord.recR.comp = SCIDC_NONCOMP /\ ord.recR.data = <<1, 200>>
    /\ ord.recG.comp = SCIDC_PACK /\ ord.recG.data = <<200, 1>>
    /\ ord.recB.comp = SCIDC_OTHER /\ ord.recB.data = <<200, 1>>
    /\ ord.outs[6].st = ST_LINE
    /\ ord.outs[6].dst = <<1, 1, 200, 200, 1, 1>>

\* a call with w, w->pLineData and w->pWriteBuff present
RefsPresent == op = "Write" /\ w.wPresent /\ w.linePresent /\ w.buffPresent

\* C21: every ScanDecWrite returns 0 or exactly dwOutLineByte, a non-zero
\* count exactly with the line status, and in an open 1-bit or 8-bit session
\* every call with its references present and a destination of at least
\* dwOutLineByte bytes is reported as a line.
C21_ZeroOrOneLinePerCall ==
    op = "Write" =>
        /\ ret \in {0, g_open.dwOutLineByte}
        /\ ret # 0 <=> st = ST_LINE
        /\ (/\ hist.opened /\ g_bpp \in {0, 1}
            /\ RefsPresent
            /\ w.dwWriteBuffSize >= g_open.dwOutLineByte) => st = ST_LINE

\* C22: after a ScanDecOpen that returned FALSE, and until a ScanDecOpen
\* returns TRUE, every ScanDecWrite returns 0 bytes without the line status
\* and writes nothing to the destination.
C22_FailedOpenLeavesNoSession ==
    (op = "Write" /\ pre.hist.failed) =>
        /\ ret = 0 /\ st # ST_LINE
        /\ acc.wrDest = 0
        /\ w.buffPresent => w.pWriteBuff = DestBefore

\* C23: the destination that ScanDecWrite leaves is a function of the
\* session and the record alone: whatever the memory outside the record
\* holds and whatever malloc returns, the call leaves the same bytes, also
\* for a PackBits record of a 1-bit session that expands to fewer than N
\* samples.
C23_OutputIsFunctionOfCalls ==
    [][ (op' = "Write" /\ w'.wPresent /\ w'.linePresent /\ w'.buffPresent)
        => \A junk \in JunkImages, mallocOk \in BOOLEAN :
              w'.pWriteBuff =
                 WriteResult(GoodRecord(w'.nInDataComp, w'.nInDataKind, w'.pLineData,
                                        w'.dwWriteBuffSize, w'.fill),
                             junk, mallocOk).dst ]_vars

\* both runs of the two-row harness are over
RowsDone == ord.pc > 0 /\ ord.pc = Len(RowsScript)

\* C24: in a 24-bit session a row is determined by the plane records
\* submitted for it alone: the records Red, Green, Blue submitted after an
\* earlier row was reported give the results, and on Blue the line, that
\* they give as the first row after ScanDecOpen, also when one of them is a
\* PackBits record or one with an unknown code that supplies fewer than N
\* samples.
C24_RowFromItsOwnRecords ==
    RowsDone =>
        /\ ord.starts[1].st = ST_LINE
        /\ ord.outs[3].st = ST_LINE /\ ord.outs[6].st = ST_LINE
        /\ ord.outs[1] = ord.outs[4]
        /\ ord.outs[2] = ord.outs[5]
        /\ ord.outs[3] = ord.outs[6]

\* an accepted PackBits record in a 1-bit session whose payload expands to
\* at least N samples
MonoPackLine ==
    /\ WriteAccepted /\ hist.opened /\ g_bpp = 0
    /\ w.nInDataComp = SCIDC_PACK
    /\ g_open.dwInLinePixCnt > 0
    /\ Len(PackBitsExpansion(w.pLineData)) >= g_open.dwInLinePixCnt

\* C25: in a 1-bit session a PackBits record that expands to at least N
\* samples is reported as a line of dwOutLineByte bytes whose bit i, MSB
\* first, is set iff i < N and the i-th sample of the expansion is >= 128.
C25_PackedLineIsQuantizedExpansion ==
    MonoPackLine =>
        LET ref == PackBitsExpansion(w.pLineData)
        IN  /\ st = ST_LINE
            /\ ret = g_open.dwOutLineByte
            /\ \A i \in 0 .. 8 * ret - 1 :
                  BitAt(w.pWriteBuff[(i \div 8) + 1], i % 8) = 1
                     <=> (i < g_open.dwInLinePixCnt /\ ref[i + 1] >= GRAY_THRESHOLD)

\* C26: a ScanDecWrite with its references present and a destination smaller
\* than dwOutLineByte returns 0 with status 0 and changes nothing: the
\* destination, the three planes and both flags are as before, also for a
\* Red or Green record of a 24-bit session.
C26_UndersizedDestinationRejected ==
    (RefsPresent /\ w.dwWriteBuffSize < g_open.dwOutLineByte) =>
        /\ ret = 0 /\ st = ST_NOLINE
        /\ w.pWriteBuff = DestBefore
        /\ acc = NoAccess
        /\ SessionAsBefore
        /\ hist.rowR = pre.hist.rowR /\ hist.rowG = pre.hist.rowG

\* C26 witness: a Green record with a destination one byte short arrives in
\* a 24-bit session in which Red is buffered
C26_Witness ==
    /\ RefsPresent /\ RgbSession
    /\ w.nInDataKind = KIND_GREEN /\ w.nInDataComp = SCIDC_WHITE
    /\ g_open.dwOutLineByte = 6 /\ w.dwWriteBuffSize = 5
    /\ pre.have_red = 1 /\ pre.have_green = 0
    /\ g_have_green = 0 /\ g_green_plane.mem = <<0, 0>>
    /\ st = ST_NOLINE

\* before the call no session was open and no ScanDecOpen had failed since
\* the start or the last ScanDecClose
NoSessionBefore == ~pre.hist.opened /\ ~pre.hist.failed

\* C27: before any ScanDecOpen and after ScanDecClose, a ScanDecWrite with
\* its references present returns 0 with status 0 and leaves the destination
\* and the session, which stays cleared, as they were.
C27_NoSessionNoOutput ==
    (RefsPresent /\ NoSessionBefore) =>
        /\ ret = 0 /\ st = ST_NOLINE
        /\ w.pWriteBuff = DestBefore
        /\ acc = NoAccess
        /\ SessionAsBefore
        /\ SessionCleared

\* C27 witness: a white record with a one-byte destination arrives after the
\* ScanDecClose of a session that had buffered plane records
C27_Witness ==
    /\ RefsPresent /\ NoSessionBefore
    /\ pre.hist.nplanes > 0
    /\ w.nInDataComp = SCIDC_WHITE /\ w.dwWriteBuffSize = 1
    /\ w.pWriteBuff = <<85>>
    /\ ret = 0

\* an accepted record of a 24-bit session whose tag is none of the three
\* plane tags
UntaggedInRgb ==
    /\ WriteAccepted /\ RgbSession
    /\ w.nInDataKind \notin {KIND_RED, KIND_GREEN, KIND_BLUE}

\* byte i of the line a record is decoded to when it goes straight to the
\* destination: white is 0xFF, a raw or unknown-code record its samples and
\* then zeros, a PackBits record its expansion and then zeros
DirectSample(i) ==
    LET ref == PackBitsExpansion(w.pLineData)
    IN  IF w.nInDataComp = SCIDC_WHITE THEN WHITE_BYTE
        ELSE IF w.nInDataComp = SCIDC_PACK
        THEN (IF i < Len(ref) THEN ref[i + 1] ELSE 0)
        ELSE RawSample(i)

\* C28: in a 24-bit session an accepted record whose tag is not Red, Green
\* or Blue is decoded straight into the destination and reported as a line
\* of dwOutLineByte bytes, and the three planes and both flags stay as they
\* were.
C28_UntaggedBypassesPlanes ==
    UntaggedInRgb =>
        /\ st = ST_LINE /\ ret = g_open.dwOutLineByte
        /\ \A i \in 1 .. w.dwWriteBuffSize :
              w.pWriteBuff[i] = IF i <= ret THEN DirectSample(i - 1) ELSE DestBefore[i]
        /\ acc.wrPlane = 0
        /\ SessionAsBefore
        /\ hist.rowR = pre.hist.rowR /\ hist.rowG = pre.hist.rowG

\* C28 witness: an untagged raw record arrives while Red is buffered
C28_Witness ==
    /\ UntaggedInRgb
    /\ w.nInDataComp = SCIDC_NONCOMP /\ w.pLineData = <<1, 200>>
    /\ g_open.dwInLinePixCnt = 2 /\ g_open.bLongBoundary = 0
    /\ pre.have_red = 1 /\ g_have_red = 1 /\ g_red_plane.mem = <<255, 255>>
    /\ ret = 6
    /\ SubSeq(w.pWriteBuff, 1, 6) = <<1, 200, 0, 0, 0, 0>>

\* C29: ScanDecPageStart returns TRUE, ScanDecPageEnd returns 0 with status
\* 0, and both leave g_open, the planes, the flags and the row that is being
\* buffered as they were; an accepted Blue record that follows a
\* ScanDecPageEnd called in the middle of its row, Red and Green being
\* buffered, is reported as the interleaved line.
C29_PageCallsKeepDecodeState ==
    /\ op = "PageStart" =>
          ret = C_TRUE /\ SessionAsBefore /\ hist = pre.hist /\ acc = NoAccess
    /\ op = "PageEnd" =>
          /\ ret = 0 /\ st = ST_NOLINE
          /\ SessionAsBefore /\ acc = NoAccess
          /\ hist.opened = pre.hist.opened
          /\ hist.rowR = pre.hist.rowR /\ hist.rowG = pre.hist.rowG
    /\ (/\ WriteAccepted /\ RgbSession /\ w.nInDataKind = KIND_BLUE
        /\ pre.hist.rowR /\ pre.hist.rowG /\ pre.hist.rowPage) =>
          /\ st = ST_LINE /\ ret = g_open.dwOutLineByte
          /\ RowInterleaved

\* C29 witness: Red and Green are buffered, the page ends, and the Blue
\* record that follows completes the row
C29_Witness ==
    /\ WriteAccepted /\ RgbSession /\ w.nInDataKind = KIND_BLUE
    /\ pre.hist.rowR /\ pre.hist.rowG /\ pre.hist.rowPage
    /\ g_open.dwInLinePixCnt = 1
    /\ pre.red.mem = <<255>> /\ pre.green.mem = <<200>>
    /\ w.nInDataComp = SCIDC_NONCOMP /\ w.pLineData = <<1, 200>>
    /\ st = ST_LINE
    /\ SubSeq(w.pWriteBuff, 1, 3) = <<255, 200, 1>>
====
